---- MODULE Spec2Model ----
(***************************************************************************)
(* The reader of rust-lisp (src/src/parser.rs) and the interactive loop     *)
(* that drives it (src/src/main.rs).                                        *)
(*                                                                         *)
(* A source text is a sequence of one-character strings.  The Peekable     *)
(* character iterator of the parser is an index into that sequence: the    *)
(* position of the next character iter.next() will yield.                  *)
(***************************************************************************)
EXTENDS Integers, Sequences, FiniteSets, TLC

VARIABLES
    line,     \* tokenize: the text handed to tokenize
    result,   \* tokenize: the ParseResult once it has returned
    pc,       \* tokenize: "start", "done", or the function a step is in
    pos,      \* stepwise run: the iterator's position
    stack,    \* stepwise run: the read_tokens activations, innermost last
    buf,      \* stepwise run: the String s of read_string / read_atom
    ret,      \* stepwise run: the ParseResult being returned to the caller
    steps,    \* stepwise run: loop iterations and calls executed so far
    lines,    \* repl: the pending buffer
    prompt,   \* repl: the prompt readline is showing
    last,     \* repl: what the last loop iteration did
    input     \* repl: the line the last loop iteration read

vars == <<line, result, pc, pos, stack, buf, ret, steps, lines, prompt, last, input>>

(***************************************************************************)
(* Bounds of the model.                                                    *)
(***************************************************************************)
MaxListLen == 5
MaxStrLen == 5
MaxAtomLen == 4
MaxMarkLen == 3
MaxStepLen == 4
MaxBuf == 3
MaxLineLen == 2

(***************************************************************************)
(* Characters.                                                             *)
(***************************************************************************)
DQ == "\""
BS == "\\"
NL == "\n"
SP == " "
TAB == "\t"
SQ == "'"
\* the backtick, which a TLA+ string cannot hold
BQ == "BACKTICK"
TILDE == "~"
LP == "("
RP == ")"
SEMI == ";"

\* char::is_whitespace, on the characters the model draws from
IsWhitespace(c) == c \in {SP, NL, TAB}

Digits == <<"0", "1", "2", "3", "4", "5", "6", "7", "8", "9">>

IsDigit(c) == \E d \in 1..10 : Digits[d] = c

DigitVal(c) == (CHOOSE d \in 1..10 : Digits[d] = c) - 1

(***************************************************************************)
(* Atoms.  Atom::parse and Display for Atom live in atom.rs, which is not  *)
(* among the sources; they follow the specification, sections 4.2 and 6.  *)
(***************************************************************************)
AllDigits(s) == \A k \in 1..Len(s) : IsDigit(s[k])

RECURSIVE DecimalValue(_)
DecimalValue(s) ==
    IF s = <<>> THEN 0
    ELSE 10 * DecimalValue(SubSeq(s, 1, Len(s) - 1)) + DigitVal(s[Len(s)])

Unsigned(s) == IF s # <<>> /\ s[1] = "-" THEN Tail(s) ELSE s

\* optional leading '-', digits only, at least one digit
IsIntegerText(s) == Unsigned(s) # <<>> /\ AllDigits(Unsigned(s))

\* optional leading '-', digits around exactly one decimal point, at least one digit
IsFloatText(s) ==
    LET u == Unsigned(s)
        dots == {k \in 1..Len(u) : u[k] = "."}
    IN  /\ Cardinality(dots) = 1
        /\ Len(u) >= 2
        /\ \A k \in 1..Len(u) : u[k] = "." \/ IsDigit(u[k])

IntegerAtom(n) == [a |-> "Integer", n |-> n, text |-> <<>>]
FloatAtom(s) == [a |-> "Float", n |-> 0, text |-> s]
SymbolAtom(s) == [a |-> "Symbol", n |-> 0, text |-> s]
StringAtom(s) == [a |-> "String", n |-> 0, text |-> s]

SignedValue(s) ==
    IF s[1] = "-" THEN 0 - DecimalValue(Unsigned(s)) ELSE DecimalValue(s)

\* the digit strings of the model are far shorter than the 19 digits of i64::MAX,
\* so an integer text is always in range here
AtomParse(s) ==
    IF IsIntegerText(s)
    THEN IntegerAtom(SignedValue(s))
    ELSE IF IsFloatText(s) THEN FloatAtom(s)
    ELSE SymbolAtom(s)

RECURSIVE NatText(_)
NatText(n) ==
    IF n < 10 THEN <<Digits[n + 1]>>
    ELSE Append(NatText(n \div 10), Digits[(n % 10) + 1])

IntText(n) == IF n < 0 THEN <<"-">> \o NatText(0 - n) ELSE NatText(n)

\* Display for Atom: the literal text; a String prints its raw content
DisplayAtom(a) == IF a.a = "Integer" THEN IntText(a.n) ELSE a.text

(***************************************************************************)
(* Syntax trees (Node, SyntaxNode) and results (ParseResult).              *)
(***************************************************************************)
NoAtom == [a |-> "None", n |-> 0, text |-> <<>>]

AtomNode(a) == [t |-> "Atom", atom |-> a, list |-> <<>>]
ListNode(v) == [t |-> "List", atom |-> NoAtom, list |-> v]
NoNode == [t |-> "None", atom |-> NoAtom, list |-> <<>>]

PlainNode(n) == [k |-> "Node", node |-> n]
QuoteNode(n) == [k |-> "Quote", node |-> n]
QuasiQuoteNode(n) == [k |-> "QuasiQuote", node |-> n]
SpliceNode(n) == [k |-> "Splice", node |-> n]
NoSyntax == [k |-> "None", node |-> NoNode]

\* a ParseResult together with the iterator position it leaves behind
Ok(v, p) == [ok |-> TRUE, err |-> "None", val |-> v, pos |-> p]
Err(e, p) == [ok |-> FALSE, err |-> e, val |-> NoSyntax, pos |-> p]

(***************************************************************************)
(* Display for Node and SyntaxNode.                                        *)
(***************************************************************************)
RECURSIVE DisplayNode(_), DisplaySyntax(_), DisplayRest(_, _)

\* for n in list.iter().skip(1): write " {}"
DisplayRest(list, k) ==
    IF k > Len(list) THEN <<>>
    ELSE <<SP>> \o DisplaySyntax(list[k]) \o DisplayRest(list, k + 1)

DisplayNode(n) ==
    IF n.t = "Atom" THEN DisplayAtom(n.atom)
    ELSE <<LP>>
         \o (IF n.list # <<>> THEN DisplaySyntax(n.list[1]) \o DisplayRest(n.list, 2)
             ELSE <<>>)
         \o <<RP>>

DisplaySyntax(sn) ==
    CASE sn.k = "Node" -> DisplayNode(sn.node)
      [] sn.k = "Quote" -> <<SQ>> \o DisplayNode(sn.node)
      [] sn.k = "QuasiQuote" -> <<BQ>> \o DisplayNode(sn.node)
      [] sn.k = "Splice" -> <<TILDE, "@">> \o DisplayNode(sn.node)

(***************************************************************************)
(* Tokens: the Result<Option<Token>, Error> of next, read_string and       *)
(* read_atom, with the position the iterator is left at.                   *)
(***************************************************************************)
Token(t, a) == [t |-> t, atom |-> a]

\* Ok(Some(tok))
TokOk(tok, p) == [err |-> "None", some |-> TRUE, tok |-> tok, pos |-> p]
\* Ok(None)
TokNone(p) == [err |-> "None", some |-> FALSE, tok |-> Token("None", NoAtom), pos |-> p]
\* Err(e)
TokErr(e, p) == [err |-> e, some |-> FALSE, tok |-> Token("None", NoAtom), pos |-> p]

HasChar(l, i) == i <= Len(l)

(***************************************************************************)
(* read_string                                                             *)
(***************************************************************************)
\* s.push(escaped): the character after a backslash is copied as it is
PushEscapedDropped(s, c) == s
PushEscaped(s, c) == Append(s, c)

RECURSIVE ReadString(_, _, _)
ReadString(l, i, s) ==
    IF ~HasChar(l, i) THEN TokErr("Parser", i)
    ELSE IF l[i] = BS
         THEN IF HasChar(l, i + 1)
              THEN ReadString(l, i + 2, PushEscaped(s, l[i + 1]))
              ELSE TokErr("Parser", i + 1)
    ELSE IF l[i] = DQ THEN TokOk(Token("Atom", StringAtom(s)), i + 1)
    ELSE ReadString(l, i + 1, Append(s, l[i]))

(***************************************************************************)
(* read_atom                                                               *)
(***************************************************************************)
\* let mut s = String::new(); s.push(c)
AtomStartEmpty(c) == <<>>
AtomStart(c) == <<c>>

RECURSIVE ReadAtomLoop(_, _, _)
ReadAtomLoop(l, i, s) ==
    IF HasChar(l, i) /\ l[i] = RP
    THEN TokOk(Token("Atom", AtomParse(s)), i)
    ELSE IF HasChar(l, i)
         THEN IF ~IsWhitespace(l[i])
              THEN ReadAtomLoop(l, i + 1, Append(s, l[i]))
              ELSE TokOk(Token("Atom", AtomParse(s)), i + 1)
         ELSE TokOk(Token("Atom", AtomParse(s)), i)

ReadAtom(c, l, i) == ReadAtomLoop(l, i, AtomStart(c))

(***************************************************************************)
(* next                                                                    *)
(***************************************************************************)
\* the inner loop of the ';' arm: the position after the newline, or 0 when
\* the text ends inside the comment
RECURSIVE SkipComment(_, _)
SkipComment(l, i) ==
    IF ~HasChar(l, i) THEN 0
    ELSE IF l[i] = NL THEN i + 1
    ELSE SkipComment(l, i + 1)

RECURSIVE NextToken(_, _)
NextToken(l, i) ==
    IF ~HasChar(l, i) THEN TokNone(i)
    ELSE LET c == l[i] IN
         CASE c = LP -> TokOk(Token("Open", NoAtom), i + 1)
           [] c = DQ -> ReadString(l, i + 1, <<>>)
           [] c = RP -> TokOk(Token("Close", NoAtom), i + 1)
           [] c = SQ -> TokOk(Token("Quote", NoAtom), i + 1)
           [] c = SEMI ->
                IF SkipComment(l, i + 1) = 0 THEN TokNone(Len(l) + 1)
                ELSE NextToken(l, SkipComment(l, i + 1))
           [] OTHER ->
                IF IsWhitespace(c) THEN NextToken(l, i + 1)
                ELSE ReadAtom(c, l, i + 1)

(***************************************************************************)
(* read_tokens and tokenize                                                *)
(***************************************************************************)
\* node.push(token)
PushChildFront(node, child) == <<child>> \o node
PushChild(node, child) == Append(node, child)

\* the Quote arm, given the result r of the recursive call
QuoteResult(r) ==
    IF ~r.ok THEN r
    ELSE IF r.val.k = "Node" THEN Ok(QuoteNode(r.val.node), r.pos)
    ELSE Err("Parser", r.pos)

\* the list loop meets the end of the text
ListAtEnd(p) == Err("Parser", p)

RECURSIVE ReadTokens(_, _), ReadList(_, _, _)

ReadList(l, i, node) ==
    IF HasChar(l, i) /\ l[i] = RP THEN Ok(PlainNode(ListNode(node)), i + 1)
    ELSE IF HasChar(l, i)
         THEN LET r == ReadTokens(l, i) IN
              IF ~r.ok THEN r
              ELSE ReadList(l, r.pos, PushChild(node, r.val))
         ELSE ListAtEnd(i)

ReadTokens(l, i) ==
    LET n == NextToken(l, i) IN
    IF n.err # "None" \/ ~n.some THEN Err("Parser", n.pos)
    ELSE CASE n.tok.t = "Open" -> ReadList(l, n.pos, <<>>)
           [] n.tok.t = "Close" -> Err("Parser", n.pos)
           [] n.tok.t = "Quote" -> QuoteResult(ReadTokens(l, n.pos))
           [] n.tok.t = "Atom" -> Ok(PlainNode(AtomNode(n.tok.atom)), n.pos)
           [] OTHER -> Err("Parser", n.pos)

tokenize(l) == ReadTokens(l, 1)

(***************************************************************************)
(* The texts tokenize is applied to.                                       *)
(***************************************************************************)
BoundedSeq(A, n) == UNION {[1..k -> A] : k \in 0..n}

ListInputs == BoundedSeq({LP, RP, "a", "b", SP, SQ}, MaxListLen)
StringInputs == {<<DQ>> \o s : s \in BoundedSeq({DQ, BS, "a", SQ}, MaxStrLen)}
AtomInputs == BoundedSeq({"1", "2", "-", ".", "a"}, MaxAtomLen)
MarkInputs == BoundedSeq({BQ, TILDE, "@", "a", LP, RP}, MaxMarkLen)

Inputs == ListInputs \cup StringInputs \cup AtomInputs \cup MarkInputs

NoResult == [ok |-> FALSE, err |-> "None", val |-> NoSyntax, pos |-> 0]

\* the variables of the stepwise run, at rest
StepIdle == pos = 0 /\ stack = <<>> /\ buf = <<>> /\ ret = NoResult /\ steps = 0
\* the variables of the interactive loop, at rest
ReplIdle == lines = <<>> /\ prompt = "" /\ last = "none" /\ input = <<>>

stepVars == <<pos, stack, buf, ret, steps>>
replVars == <<lines, prompt, last, input>>

(***************************************************************************)
(* tokenize as one call.                                                   *)
(***************************************************************************)
Init ==
    /\ line \in Inputs
    /\ result = NoResult
    /\ pc = "start"
    /\ StepIdle
    /\ ReplIdle

Tokenize ==
    /\ pc = "start"
    /\ result' = tokenize(line)
    /\ pc' = "done"
    /\ UNCHANGED <<line, stepVars, replVars>>

Next == Tokenize

Spec == Init /\ [][Next]_vars

(***************************************************************************)
(* tokenize step by step: one action per loop iteration, call or return.   *)
(* stack holds the activations of read_tokens; pc names the loop the       *)
(* innermost activation is in.                                             *)
(***************************************************************************)
StepInputs == BoundedSeq({LP, RP, SQ, "a", SP, DQ, BS, SEMI, NL}, MaxStepLen)

\* no run of tokenize takes more steps than this (see StepBounds)
StepCap(l) == 3 * Len(l) + 4

Frame(kind, node) == [kind |-> kind, node |-> node]

Top == stack[Len(stack)]
SetTop(f) == [stack EXCEPT ![Len(stack)] = f]

\* iter.next() moves the iterator past the character it yields
AdvanceStuck(p) == p
Advance(p) == p + 1

StepInit ==
    /\ line \in StepInputs
    /\ result = NoResult
    /\ pc = "next"
    /\ pos = 1
    /\ stack = <<Frame("entry", <<>>)>>
    /\ buf = <<>>
    /\ ret = NoResult
    /\ steps = 0
    /\ ReplIdle

Running == pc # "done" /\ steps < StepCap(line)

\* one iteration of the outer loop of next, and the arm of read_tokens the
\* token selects when next returns at once
NextStep ==
    /\ Running /\ pc = "next"
    /\ steps' = steps + 1
    /\ UNCHANGED <<line, result, replVars>>
    /\ IF ~HasChar(line, pos)
       THEN /\ pc' = "return"
            /\ ret' = Err("Parser", pos)
            /\ UNCHANGED <<pos, stack, buf>>
       ELSE LET c == line[pos] IN
            /\ pos' = Advance(pos)
            /\ CASE c = LP ->
                    /\ stack' = SetTop(Frame("list", <<>>))
                    /\ pc' = "list"
                    /\ UNCHANGED <<buf, ret>>
                 [] c = DQ ->
                    /\ buf' = <<>>
                    /\ pc' = "read_string"
                    /\ UNCHANGED <<stack, ret>>
                 [] c = RP ->
                    /\ pc' = "return"
                    /\ ret' = Err("Parser", pos')
                    /\ UNCHANGED <<stack, buf>>
                 [] c = SQ ->
                    /\ stack' = Append(SetTop(Frame("quote", <<>>)), Frame("entry", <<>>))
                    /\ pc' = "next"
                    /\ UNCHANGED <<buf, ret>>
                 [] c = SEMI ->
                    /\ pc' = "comment"
                    /\ UNCHANGED <<stack, buf, ret>>
                 [] OTHER ->
                    IF IsWhitespace(c)
                    THEN /\ pc' = "next"
                         /\ UNCHANGED <<stack, buf, ret>>
                    ELSE /\ buf' = AtomStart(c)
                         /\ pc' = "read_atom"
                         /\ UNCHANGED <<stack, ret>>

\* one iteration of the inner loop of the ';' arm of next
CommentStep ==
    /\ Running /\ pc = "comment"
    /\ steps' = steps + 1
    /\ UNCHANGED <<line, result, stack, buf, replVars>>
    /\ IF ~HasChar(line, pos)
       THEN /\ pc' = "return"
            /\ ret' = Err("Parser", pos)
            /\ UNCHANGED pos
       ELSE /\ pos' = Advance(pos)
            /\ pc' = IF line[pos] = NL THEN "next" ELSE "comment"
            /\ UNCHANGED ret

\* one iteration of the loop of read_string
ReadStringStep ==
    /\ Running /\ pc = "read_string"
    /\ steps' = steps + 1
    /\ UNCHANGED <<line, result, stack, replVars>>
    /\ IF ~HasChar(line, pos)
       THEN /\ pc' = "return"
            /\ ret' = Err("Parser", pos)
            /\ UNCHANGED <<pos, buf>>
       ELSE IF line[pos] = BS
            THEN IF HasChar(line, pos + 1)
                 THEN /\ pos' = Advance(Advance(pos))
                      /\ buf' = PushEscaped(buf, line[pos + 1])
                      /\ UNCHANGED <<pc, ret>>
                 ELSE /\ pos' = Advance(pos)
                      /\ pc' = "return"
                      /\ ret' = Err("Parser", pos')
                      /\ UNCHANGED buf
       ELSE IF line[pos] = DQ
            THEN /\ pos' = Advance(pos)
                 /\ pc' = "return"
                 /\ ret' = Ok(PlainNode(AtomNode(StringAtom(buf))), pos')
                 /\ UNCHANGED buf
       ELSE /\ pos' = Advance(pos)
            /\ buf' = Append(buf, line[pos])
            /\ UNCHANGED <<pc, ret>>

\* one iteration of the loop of read_atom
ReadAtomStep ==
    /\ Running /\ pc = "read_atom"
    /\ steps' = steps + 1
    /\ UNCHANGED <<line, result, stack, replVars>>
    /\ IF HasChar(line, pos) /\ line[pos] = RP
       THEN /\ pc' = "return"
            /\ ret' = Ok(PlainNode(AtomNode(AtomParse(buf))), pos)
            /\ UNCHANGED <<pos, buf>>
       ELSE IF HasChar(line, pos)
            THEN IF ~IsWhitespace(line[pos])
                 THEN /\ pos' = Advance(pos)
                      /\ buf' = Append(buf, line[pos])
                      /\ UNCHANGED <<pc, ret>>
                 ELSE /\ pos' = Advance(pos)
                      /\ pc' = "return"
                      /\ ret' = Ok(PlainNode(AtomNode(AtomParse(buf))), pos')
                      /\ UNCHANGED buf
       ELSE /\ pc' = "return"
            /\ ret' = Ok(PlainNode(AtomNode(AtomParse(buf))), pos)
            /\ UNCHANGED <<pos, buf>>

\* one iteration of the list loop of read_tokens
ListStep ==
    /\ Running /\ pc = "list"
    /\ steps' = steps + 1
    /\ UNCHANGED <<line, result, buf, replVars>>
    /\ IF HasChar(line, pos) /\ line[pos] = RP
       THEN /\ pos' = Advance(pos)
            /\ pc' = "return"
            /\ ret' = Ok(PlainNode(ListNode(Top.node)), pos')
            /\ UNCHANGED stack
       ELSE IF HasChar(line, pos)
            THEN /\ stack' = Append(stack, Frame("entry", <<>>))
                 /\ pc' = "next"
                 /\ UNCHANGED <<pos, ret>>
       ELSE /\ pc' = "return"
            /\ ret' = ListAtEnd(pos)
            /\ UNCHANGED <<pos, stack>>

\* the innermost read_tokens returns ret: to tokenize's caller, to the list
\* loop that called it (try!, then node.push), or to the Quote arm
ReturnStep ==
    /\ Running /\ pc = "return"
    /\ steps' = steps + 1
    /\ UNCHANGED <<line, pos, buf, replVars>>
    /\ IF Len(stack) = 1
       THEN /\ pc' = "done"
            /\ result' = ret
            /\ stack' = <<>>
            /\ UNCHANGED ret
       ELSE LET caller == stack[Len(stack) - 1]
                rest == SubSeq(stack, 1, Len(stack) - 1)
            IN  /\ UNCHANGED result
                /\ IF caller.kind = "list"
                   THEN IF ~ret.ok
                        THEN /\ stack' = rest
                             /\ UNCHANGED <<pc, ret>>
                        ELSE /\ stack' = [rest EXCEPT ![Len(rest)] =
                                             Frame("list", PushChild(caller.node, ret.val))]
                             /\ pc' = "list"
                             /\ UNCHANGED ret
                   ELSE /\ stack' = rest
                        /\ ret' = QuoteResult(ret)
                        /\ UNCHANGED pc

StepNext ==
    \/ NextStep
    \/ CommentStep
    \/ ReadStringStep
    \/ ReadAtomStep
    \/ ListStep
    \/ ReturnStep

\* the call runs on one thread and nothing suspends it: a step that can be
\* taken is taken
StepSpec == StepInit /\ [][StepNext]_vars /\ WF_vars(StepNext)

(***************************************************************************)
(* The interactive loop of repl.  vm.eval_string is not among the sources: *)
(* its result is one of the three cases the loop tells apart.              *)
(***************************************************************************)
QuitLine == <<"q", "u", "i", "t">>
PrintStackLine == <<",", "p", "r", "i", "n", "t", "-", "s", "t", "a", "c", "k">>

\* the lines readline may return, other than the two commands
ReplLines == BoundedSeq({LP, "a", RP}, MaxLineLen)

\* Result of vm.eval_string: Ok(r), Err(Error::EoF), Err(e) for any other e
EvalOutcomes == {"Ok", "EoF", "Err"}

\* let prompt = if lines.is_empty() { ">" } else { "" }
Prompt(l) == IF l = <<>> THEN ">" ELSE ""

\* match result: the buffer after the arm taken
AfterEvalKeepOnErr(buffer, outcome) == IF outcome = "Ok" THEN <<>> ELSE buffer
AfterEval(buffer, outcome) == IF outcome = "EoF" THEN buffer ELSE <<>>

TokenizeIdle == line = <<>> /\ result = NoResult

ReplInit ==
    /\ lines = <<>>
    /\ prompt = Prompt(lines)
    /\ last = "start"
    /\ input = <<>>
    /\ pc = "readline"
    /\ TokenizeIdle
    /\ StepIdle

\* "quit" => return
ReplQuit ==
    /\ pc = "readline"
    /\ pc' = "exited"
    /\ last' = "quit"
    /\ input' = QuitLine
    /\ UNCHANGED <<lines, prompt, line, result, stepVars>>

\* ",print-stack" => vm.print_stack()
ReplPrintStack ==
    /\ pc = "readline"
    /\ last' = "print-stack"
    /\ input' = PrintStackLine
    /\ prompt' = Prompt(lines)
    /\ UNCHANGED <<lines, pc, line, result, stepVars>>

\* any other line: lines.push_str(&s), eval_string(&lines), match result;
\* then the next iteration shows its prompt
ReplEval ==
    /\ pc = "readline"
    /\ \E s \in ReplLines, outcome \in EvalOutcomes :
        /\ Len(lines) + Len(s) <= MaxBuf
        /\ input' = s
        /\ last' = outcome
        /\ lines' = AfterEval(lines \o s, outcome)
        /\ prompt' = Prompt(lines')
    /\ UNCHANGED <<pc, line, result, stepVars>>

\* readline returns None: "Exiting...", break
ReplEnd ==
    /\ pc = "readline"
    /\ pc' = "exited"
    /\ last' = "end"
    /\ input' = <<>>
    /\ UNCHANGED <<lines, prompt, line, result, stepVars>>

ReplNext ==
    \/ ReplQuit
    \/ ReplPrintStack
    \/ ReplEval
    \/ ReplEnd

ReplSpec == ReplInit /\ [][ReplNext]_vars

(***************************************************************************)
(* Properties.                                                             *)
(***************************************************************************)
Done == pc = "done"

CharsIn(l, A) == \A k \in 1..Len(l) : l[k] \in A

\* the number of '(' less the number of ')' among the first k characters
RECURSIVE Depth(_, _)
Depth(l, k) ==
    IF k = 0 THEN 0
    ELSE Depth(l, k - 1) + (IF l[k] = LP THEN 1 ELSE IF l[k] = RP THEN 0 - 1 ELSE 0)

\* l without its whitespace
RECURSIVE Strip(_)
Strip(l) ==
    IF l = <<>> THEN <<>>
    ELSE IF IsWhitespace(Head(l)) THEN Strip(Tail(l))
    ELSE <<Head(l)>> \o Strip(Tail(l))

\* the text ends inside a list that was opened and never closed
OpenListAtEnd(l) == l # <<>> /\ l[1] = LP /\ CharsIn(l, {LP, "a", "b", SP, SQ})
\* the text ends right after a quote marker
QuoteAtEnd(l) == l # <<>> /\ CharsIn(l, {SQ})

\* C1: a text that ends inside an open list, or right after a quote marker,
\* makes tokenize return Error::EoF and not Error::Parser.
C1_IncompleteIsEoF ==
    (Done /\ (OpenListAtEnd(line) \/ QuoteAtEnd(line)))
        => (~result.ok /\ result.err = "EoF")

\* a list of atoms and lists written with whitespace between its elements,
\* any amount after '(' and any amount before ')'
IsSpacedList(l) ==
    /\ Len(l) >= 2
    /\ CharsIn(l, {LP, RP, "a", "b", SP})
    /\ l[1] = LP
    /\ \A k \in 1..(Len(l) - 1) : Depth(l, k) >= 1
    /\ Depth(l, Len(l)) = 0
    /\ \A k \in 2..Len(l) :
        /\ l[k] = LP => l[k - 1] \in {LP, SP}
        /\ l[k] \in {"a", "b"} => l[k - 1] \in {LP, SP, "a", "b"}

\* the first character at or after k that is not a space
RECURSIVE NextNonSpace(_, _)
NextNonSpace(l, k) ==
    IF k > Len(l) THEN SP
    ELSE IF l[k] = SP THEN NextNonSpace(l, k + 1)
    ELSE l[k]

\* the canonical writing of a spaced list: one space between two elements,
\* none elsewhere
RECURSIVE CanonicalFrom(_, _)
CanonicalFrom(l, k) ==
    IF k > Len(l) THEN <<>>
    ELSE IF l[k] = SP /\ (l[k - 1] \in {SP, LP} \/ NextNonSpace(l, k) = RP)
         THEN CanonicalFrom(l, k + 1)
    ELSE <<l[k]>> \o CanonicalFrom(l, k + 1)

Canonical(l) == <<l[1]>> \o CanonicalFrom(l, 2)

\* C2: every whitespace variant of a list parses, and prints in the canonical
\* form with exactly one space between elements.
C2_WhitespaceInsignificant ==
    (Done /\ IsSpacedList(line))
        => (result.ok /\ DisplaySyntax(result.val) = Canonical(line))

\* C4: a quote marker followed by any well-formed form, a quoted form included,
\* parses to that form's node wrapped in Quote.
C4_QuoteWrapsAnyForm ==
    (Done /\ line # <<>> /\ line[1] = SQ /\ tokenize(Tail(line)).ok)
        => (result.ok /\ result.val = QuoteNode(tokenize(Tail(line)).val.node))

\* a form written without any marker character, and nothing after it
PlainForm(f) ==
    /\ CharsIn(f, {"a", LP, RP})
    /\ tokenize(f).ok
    /\ tokenize(f).pos = Len(f) + 1

\* C5: a backtick before a form parses to QuasiQuote of the form's node, and a
\* tilde, with an optional '@', to Splice of it.
C5_MarkersRecognized ==
    /\ (Done /\ line # <<>> /\ line[1] = BQ /\ PlainForm(Tail(line)))
          => (result.ok /\ result.val = QuasiQuoteNode(tokenize(Tail(line)).val.node))
    /\ (Done /\ Len(line) >= 2 /\ line[1] = TILDE /\ line[2] # "@"
             /\ PlainForm(Tail(line)))
          => (result.ok /\ result.val = SpliceNode(tokenize(Tail(line)).val.node))
    /\ (Done /\ Len(line) >= 2 /\ line[1] = TILDE /\ line[2] = "@"
             /\ PlainForm(Tail(Tail(line))))
          => (result.ok /\ result.val = SpliceNode(tokenize(Tail(Tail(line))).val.node))

\* every '(' of l starts a token of its own and every ')' ends one, and some
\* ')' has no '(' before it left to close
HasUnmatchedClose(l) ==
    /\ CharsIn(l, {LP, RP, "a", "b", SP})
    /\ \A k \in 2..Len(l) : l[k] = LP => l[k - 1] \in {LP, RP, SP}
    /\ \E k \in 1..Len(l) : Depth(l, k) < 0

\* C6: a ')' that no earlier '(' matches, first in the text or after a complete
\* form, makes tokenize return Error::Parser.
C6_UnmatchedCloseIsError ==
    (Done /\ HasUnmatchedClose(line)) => (~result.ok /\ result.err = "Parser")

\* the character at k of a text that opens with '"' follows a backslash that
\* is itself not escaped
RECURSIVE Escaped(_, _)
Escaped(l, k) == k > 2 /\ l[k - 1] = BS /\ ~Escaped(l, k - 1)

\* the positions of the '"' that are not escaped, after the opening one
ClosingQuotes(l) == {k \in 2..Len(l) : l[k] = DQ /\ ~Escaped(l, k)}

FirstOf(S) == CHOOSE k \in S : \A j \in S : k <= j

\* the characters from position k to position m, the escaping backslashes dropped
RECURSIVE Unescaped(_, _, _)
Unescaped(l, k, m) ==
    IF k > m THEN <<>>
    ELSE IF l[k] = BS /\ ~Escaped(l, k) THEN Unescaped(l, k + 1, m)
    ELSE <<l[k]>> \o Unescaped(l, k + 1, m)

\* C7: a text that opens with '"' yields the String of the characters up to the
\* first unescaped '"', each escaping backslash dropped and the character after
\* it kept; with no unescaped closing '"' the result is Error::Parser, never EoF.
C7_StringLiteralCopy ==
    (Done /\ line # <<>> /\ line[1] = DQ)
        => IF ClosingQuotes(line) = {}
           THEN ~result.ok /\ result.err = "Parser"
           ELSE /\ result.ok
                /\ result.val = PlainNode(AtomNode(StringAtom(
                       Unescaped(line, 2, FirstOf(ClosingQuotes(line)) - 1))))
                /\ result.pos = FirstOf(ClosingQuotes(line)) + 1

\* a string holding an escaped '"' and an escaped quote mark has been read
C7_Witness ==
    /\ Done
    /\ line = <<DQ, BS, DQ, BS, SQ, DQ>>
    /\ result.ok
    /\ result.val.node.atom = StringAtom(<<DQ, SQ>>)

\* a text that is one atom literal: no whitespace, no delimiter, no marker
IsAtomLiteral(l) == l # <<>> /\ CharsIn(l, {"1", "2", "-", ".", "a"})

\* C8: a text that is exactly one atom literal parses to the plain atom node of
\* the classification of the whole text: no character is dropped or split off;
\* an integer text gives its value, any other text is kept verbatim.
C8_NakedAtom ==
    (Done /\ IsAtomLiteral(line))
        => /\ result.ok
           /\ result.val = PlainNode(AtomNode(AtomParse(line)))
           /\ result.pos = Len(line) + 1
           /\ LET v == result.val.node.atom IN
              /\ IsIntegerText(line) => v.a = "Integer" /\ v.n = SignedValue(line)
              /\ (~IsIntegerText(line) /\ IsFloatText(line))
                    => v.a = "Float" /\ v.text = line
              /\ (~IsIntegerText(line) /\ ~IsFloatText(line))
                    => v.a = "Symbol" /\ v.text = line

\* -12 has been read as the integer -12
C8_Witness ==
    /\ Done
    /\ line = <<"-", "1", "2">>
    /\ result.ok
    /\ result.val = PlainNode(AtomNode(IntegerAtom(0 - 12)))

\* C9: a list is returned only once its ')' was consumed, and holds exactly the
\* forms written between its parentheses, in their order; a child that fails
\* makes the list loop return the child's error as it is, and no list.
C9_NoPartialList ==
    Done =>
        /\ (result.ok /\ result.val.node.t = "List" /\ CharsIn(line, {LP, RP, "a", "b", SP, SQ}))
              => /\ result.pos >= 3
                 /\ line[result.pos - 1] = RP
                 /\ Strip(DisplaySyntax(result.val))
                        = Strip(SubSeq(line, 1, result.pos - 1))
        /\ \A i \in 1..Len(line) :
              (line[i] # RP /\ ~ReadTokens(line, i).ok)
                  => /\ ReadList(line, i, <<>>) = ReadTokens(line, i)
                     /\ (i = 2 /\ line[1] = LP) => result = ReadTokens(line, i)

\* a list of two different children, the first a list itself, has been returned
C9_Witness ==
    /\ Done
    /\ result.ok
    /\ result.val.node.t = "List"
    /\ Len(result.val.node.list) = 2
    /\ result.val.node.list[1].node.t = "List"
    /\ result.val.node.list[2].node.t = "Atom"

\* every iteration of a loop consumes a character or leaves the loop; the list
\* loop may instead call read_tokens on a character it has peeked, and a called
\* read_tokens that has a character consumes it at once; a return consumes
\* nothing and pops an activation
StepProgress ==
    /\ pc \in {"next", "comment", "read_string", "read_atom"}
          => (pos' > pos \/ pc' = "return")
    /\ (pc = "next" /\ HasChar(line, pos)) => pos' > pos
    /\ pc = "list"
          => \/ pos' > pos
             \/ pc' = "return"
             \/ pc' = "next" /\ HasChar(line, pos) /\ Len(stack') = Len(stack) + 1
    /\ pc = "return" => (pos' = pos /\ Len(stack') < Len(stack))

\* the recursion depth and the number of steps are bounded by the text's length
StepBounds ==
    /\ Len(stack) <= pos
    /\ pos <= Len(line) + 1
    /\ steps <= 3 * Len(line) + 2
    /\ Done => (result.ok \/ result.err \in {"Parser", "EoF"})

\* C10: tokenize terminates: each loop iteration and each recursive call
\* consumes a character before the next one, the depth and the step count are
\* bounded by the length of the text, and the call returns Ok or Err.
C10_Terminates == []StepBounds /\ [][StepProgress]_vars /\ <>Done

\* a text of four characters has been parsed to the end through calls and returns
C10_Witness ==
    /\ Done
    /\ result.ok
    /\ steps > 2 * Len(line)
    /\ Len(line) = 4

\* what one iteration of the loop leaves behind, the claim's last clause read
\* as "the primary prompt is shown exactly when the buffer is empty"
ReplStep ==
    /\ last' = "Ok" => lines' = <<>>
    /\ last' = "EoF" => lines' = lines \o input'
    /\ last' = "Err" => lines' = <<>>
    /\ last' \in {"quit", "print-stack", "end"} => lines' = lines
    /\ prompt' = ">" <=> lines' = <<>>
    /\ prompt' = "" <=> lines' # <<>>

====
